---- MODULE Spec2Model ----
(***************************************************************************)
(* Synchronization engine of the to-do service: the local store (TodoList  *)
(* and Todo rows), the remote list/item API, the sync queue, the outbound  *)
(* handlers of SyncService (one step per await) and the inbound pass       *)
(* SyncService.syncFromExternal (one step per loop iteration).             *)
(***************************************************************************)
EXTENDS Integers, Sequences, FiniteSets, TLC

\* ------------------------------------------------------------------ bounds
\* local list ids 1..MaxLists and todo ids 1..MaxTodos can be generated
MaxLists == 2
MaxTodos == 2
\* remote list ids 1..MaxRLists and remote item ids 1..MaxRItems
MaxRLists == 2
MaxRItems == 2
\* how many local mutations, failed remote calls and inbound passes a run has
MaxMutations == 2
MaxFailures == 1
MaxPasses == 1
\* the same for a run that starts with two messages queued
PendingMutations == 1
\* the same for a run that starts with a list created on the remote side
RemoteMutations == 1
RemotePasses == 2
\* how many handlers the channel runs at the same time
NumWorkers == 2
\* how many passes the timer can have started that have not finished
NumTicks == 2
\* local mutations in a handler run
HandleMutations == 1

\* ------------------------------------------------------------------ values
\* external_id: string | null
Null == 0
Names == {"n1", "n2"}
Titles == {"t1", "t2"}
\* a remote record that was not pushed from here carries no source_id
NoSource == ""
\* id.toString() for the ids the model can generate
IdStr == <<"1", "2", "3", "4">>
ToStr(n) == IdStr[n]
NaN == 0 - 1
\* parseInt(source_id, 10)
ParseInt(s) ==
  IF \E n \in 1..Len(IdStr) : IdStr[n] = s
  THEN CHOOSE n \in 1..Len(IdStr) : IdStr[n] = s
  ELSE NaN

Workers == 1..NumWorkers
Ticks == 1..NumTicks

ListEvents == {"create-todo-list", "update-todo-list", "delete-todo-list"}
ItemEvents == {"create-todo-item", "update-todo-item", "delete-todo-item"}

VARIABLES
  lists,       \* local TodoList rows: id -> [name, ext]
  todos,       \* local Todo rows: id -> [title, completed, ext, list]
  nextListId,  \* next generated TodoList id
  nextTodoId,  \* next generated Todo id
  rlists,      \* remote lists: id -> [source_id, name]
  ritems,      \* remote items: id -> [list, source_id, description, completed]
  nextRList,   \* next remote list id
  nextRItem,   \* next remote item id
  queue,       \* sync_queue: messages emitted and not yet delivered
  h,           \* the running outbound handlers, one per worker
  rec,         \* the inbound passes in progress, one per timer tick
  budget,      \* how many mutations, failed calls and passes the run may still have
  log          \* what the run has done so far (history only, read by no action)

vars == <<lists, todos, nextListId, nextTodoId, rlists, ritems, nextRList,
          nextRItem, queue, h, rec, budget, log>>

local == <<lists, todos, nextListId, nextTodoId>>
remote == <<rlists, ritems, nextRList, nextRItem>>

\* ------------------------------------------------------------------ helpers
Put(f, k, v) == [x \in DOMAIN f \cup {k} |-> IF x = k THEN v ELSE f[x]]
Drop(f, S) == [x \in DOMAIN f \ S |-> f[x]]
Empty == [x \in {} |-> 0]
Min(S) == CHOOSE x \in S : \A y \in S : x <= y
Max(S) == CHOOSE x \in S : \A y \in S : x >= y
\* the element after x in ascending order, or Null at the end
NextAbove(S, x) == IF \E y \in S : y > x THEN Min({y \in S : y > x}) ELSE Null

TodosOf(ts, l) == {t \in DOMAIN ts : ts[t].list = l}
ItemsOf(is, r) == {i \in DOMAIN is : is[i].list = r}

\* ------------------------------------------------------------------ local store
\* Repository.save of a TodoList entity: the row gets the entity's columns
\* (inserted under its id when the row is gone)
SaveList(ls, id, name, ext) == Put(ls, id, [name |-> name, ext |-> ext])

\* Repository.save of a Todo entity loaded without its todoList relation:
\* title, completed and external_id are written, the foreign key is not
SaveTodo(ts, id, title, completed, ext) ==
  Put(ts, id, [title |-> title, completed |-> completed, ext |-> ext,
               list |-> IF id \in DOMAIN ts THEN ts[id].list ELSE Null])

\* findOne({ where: { id }, relations: ['todos'] }) / find({ relations: ['todos'] })
LoadList(l) ==
  [id |-> l, name |-> lists[l].name, ext |-> lists[l].ext,
   todos |-> [t \in TodosOf(todos, l) |->
                [title |-> todos[t].title, completed |-> todos[t].completed,
                 ext |-> todos[t].ext]]]

\* findOne({ where: { id }, relations: ['todoList'] }); listId is Null when the
\* relation is empty
LoadTodo(t) ==
  LET l == todos[t].list
      has == l \in DOMAIN lists
  IN [id |-> t, title |-> todos[t].title, completed |-> todos[t].completed,
      ext |-> todos[t].ext, listId |-> IF has THEN l ELSE Null,
      listExt |-> IF has THEN lists[l].ext ELSE Null]

NoList == [id |-> Null, name |-> "", ext |-> Null, todos |-> Empty]
NoTodo == [id |-> Null, title |-> "", completed |-> FALSE, ext |-> Null,
           listId |-> Null, listExt |-> Null]
NoResp == [id |-> Null, items |-> Empty]

\* ------------------------------------------------------------------ remote API
\* POST /todolists: the remote stores the list and its items under new ids and
\* echoes every item with its source_id. Items get ids in ascending todo order.
PostItemId(ts, t) == nextRItem + Cardinality({u \in DOMAIN ts : u < t})
PostFits(ts) ==
  /\ nextRList <= MaxRLists
  /\ nextRItem + Cardinality(DOMAIN ts) - 1 <= MaxRItems
PostResp(ts) ==
  [id |-> nextRList,
   items |-> [i \in {PostItemId(ts, t) : t \in DOMAIN ts} |->
                ToStr(CHOOSE t \in DOMAIN ts : PostItemId(ts, t) = i)]]
PostRemote(src, name, ts) ==
  /\ rlists' = Put(rlists, nextRList, [source_id |-> src, name |-> name])
  /\ ritems' = [i \in DOMAIN ritems \cup {PostItemId(ts, t) : t \in DOMAIN ts} |->
                 IF i \in DOMAIN ritems THEN ritems[i]
                 ELSE LET t == CHOOSE u \in DOMAIN ts : PostItemId(ts, u) = i
                      IN [list |-> nextRList, source_id |-> ToStr(t),
                          description |-> ts[t].title,
                          completed |-> ts[t].completed]]
  /\ nextRList' = nextRList + 1
  /\ nextRItem' = nextRItem + Cardinality(DOMAIN ts)
\* history: which source_id every remote list and item was created with
PostLog(lg, src, ts) ==
  [lg EXCEPT
     !.lsrc = Put(@, nextRList, src),
     !.isrc = [i \in DOMAIN @ \cup {PostItemId(ts, t) : t \in DOMAIN ts} |->
                 IF i \in DOMAIN @ THEN @[i]
                 ELSE ToStr(CHOOSE u \in DOMAIN ts : PostItemId(ts, u) = i)]]

\* PATCH /todolists/{id} { name }; 404 when the list is gone
PatchListRemote(r, name) ==
  /\ r \in DOMAIN rlists
  /\ rlists' = [rlists EXCEPT ![r].name = name]
  /\ UNCHANGED <<ritems, nextRList, nextRItem>>

\* DELETE /todolists/{id}: the list goes with its items
DeleteListRemote(r) ==
  /\ rlists' = Drop(rlists, {r})
  /\ ritems' = Drop(ritems, ItemsOf(ritems, r))
  /\ UNCHANGED <<nextRList, nextRItem>>

\* PATCH /todolists/{r}/todoitems/{i} { description, completed }
ItemAt(r, i) == i \in DOMAIN ritems /\ ritems[i].list = r /\ r \in DOMAIN rlists
PatchItemRemote(r, i, title, completed) ==
  /\ ItemAt(r, i)
  /\ ritems' = [ritems EXCEPT ![i].description = title, ![i].completed = completed]
  /\ UNCHANGED <<rlists, nextRList, nextRItem>>

\* DELETE /todolists/{r}/todoitems/{i}
DeleteItemRemote(r, i) ==
  /\ ritems' = IF ItemAt(r, i) THEN Drop(ritems, {i}) ELSE ritems
  /\ UNCHANGED <<rlists, nextRList, nextRItem>>

\* a remote call may fail (transport error or non-2xx): bounded per run
CanFail == budget.fails > 0
Failed == budget' = [budget EXCEPT !.fails = @ - 1]

\* ------------------------------------------------------------------ sync queue
Event(type, id) == [type |-> type, id |-> id]
\* ClientProxy.emit('sync-event', { type, payload: { id } })
Emit(type, id) == queue' = Append(queue, Event(type, id))
\* each producing service has its own connection; a connection's messages are
\* delivered in the order it sent them
Producer(e) == IF e.type \in ListEvents THEN "todo_lists" ELSE "todos"
Deliverable(i) ==
  \A j \in 1..(i - 1) : Producer(queue[j]) # Producer(queue[i])
Without(q, i) == SubSeq(q, 1, i - 1) \o SubSeq(q, i + 1, Len(q))

\* ------------------------------------------------------------------ outbound
\* one entry of a handler's trace: a read or write of the local store, a remote
\* call with its answer, or the warning of createTodoItem
Io == [op |-> "", id |-> Null, list |-> Null, ext |-> Null, lext |-> Null,
       src |-> "", name |-> "", title |-> "", completed |-> FALSE,
       items |-> Empty, echo |-> Empty, res |-> ""]

Idle == [pc |-> "idle", ev |-> Event("", Null), arg |-> Null, stack |-> <<>>,
         list |-> NoList, todo |-> NoTodo, resp |-> NoResp, k |-> Null,
         trace |-> <<>>]

\* history: the handler did e (kept in the runs that keep traces)
Did(hw, e) == IF log.keep THEN [hw EXCEPT !.trace = Append(@, e)] ELSE hw

\* history: what todoListRepository.findOne returns for list l
ReadList(l, op) ==
  IF l \in DOMAIN lists
  THEN [Io EXCEPT !.op = op, !.id = l, !.ext = lists[l].ext, !.name = lists[l].name,
                  !.items = IF op = "find-list-todos" THEN LoadList(l).todos
                            ELSE Empty,
                  !.res = "found"]
  ELSE [Io EXCEPT !.op = op, !.id = l, !.res = "none"]

\* history: what todoRepository.findOne returns for todo t
ReadTodo(t) ==
  IF t \in DOMAIN todos
  THEN [Io EXCEPT !.op = "find-todo", !.id = t, !.list = LoadTodo(t).listId,
                  !.ext = todos[t].ext, !.lext = LoadTodo(t).listExt,
                  !.title = todos[t].title, !.completed = todos[t].completed,
                  !.res = "found"]
  ELSE [Io EXCEPT !.op = "find-todo", !.id = t, !.res = "none"]

\* history: save(todoList), save(localTodo), logger.warn
WroteList(id, name, ext) ==
  [Io EXCEPT !.op = "save-list", !.id = id, !.name = name, !.ext = ext]
WroteTodo(id, title, completed, ext) ==
  [Io EXCEPT !.op = "save-todo", !.id = id, !.title = title,
             !.completed = completed, !.ext = ext]
Warned(t) == [Io EXCEPT !.op = "warn", !.id = t]

\* the remote call a handler is about to make: the request body and address
CallOf(hw) ==
  CASE hw.pc = "CL_post" ->
         [Io EXCEPT !.op = "POST", !.src = ToStr(hw.list.id),
                    !.name = hw.list.name, !.items = hw.list.todos]
    [] hw.pc = "UL_patch" ->
         [Io EXCEPT !.op = "PATCH-list", !.ext = hw.list.ext, !.name = hw.list.name]
    [] hw.pc = "DL_delete" ->
         [Io EXCEPT !.op = "DELETE-list", !.ext = hw.list.ext]
    [] hw.pc = "UI_patch" ->
         [Io EXCEPT !.op = "PATCH-item", !.lext = hw.todo.listExt,
                    !.ext = hw.todo.ext, !.title = hw.todo.title,
                    !.completed = hw.todo.completed]
    [] hw.pc = "DI_delete" ->
         [Io EXCEPT !.op = "DELETE-item", !.lext = hw.todo.listExt,
                    !.ext = hw.todo.ext]

\* history: the call was made and answered with res
Called(hw, res) == Did(hw, [CallOf(hw) EXCEPT !.res = res])

Entry(type) ==
  CASE type = "create-todo-list" -> "CL_find"
    [] type = "update-todo-list" -> "UL_find"
    [] type = "delete-todo-list" -> "DL_find"
    [] type = "create-todo-item" -> "CI_find"
    [] type = "update-todo-item" -> "UI_find"
    [] type = "delete-todo-item" -> "DI_find"

\* SyncConsumer.handleSyncEvent -> SyncService.handleSyncEvent: the channel hands a
\* message to a free handler, which dispatches on the event type
Deliver(w) ==
  /\ h[w].pc = "idle"
  /\ \A v \in Workers : v < w => h[v].pc # "idle"
  /\ \E i \in 1..Len(queue) :
       /\ Deliverable(i)
       /\ h' = [h EXCEPT ![w] = [Idle EXCEPT !.pc = Entry(queue[i].type),
                                             !.ev = queue[i],
                                             !.arg = queue[i].id]]
       /\ queue' = Without(queue, i)
  /\ log' = [log EXCEPT !.nd = @ + 1]
  /\ UNCHANGED <<local, remote, rec, budget>>

\* history: one more channel.ack, with the handler's outcome and its trace
AckLog(lg, hw, outcome) ==
  [lg EXCEPT !.acks = @ \cup {[ev |-> hw.ev, outcome |-> outcome]},
             !.na = @ + 1,
             !.fin = IF lg.keep
                     THEN Append(@, [ev |-> hw.ev, out |-> outcome,
                                     trace |-> hw.trace])
                     ELSE @]

\* the consumer acknowledges only what was handled without an error
AckedOnSuccess(w, hw, outcome) ==
  /\ h' = [h EXCEPT ![w] = Idle]
  /\ log' = IF outcome = "ok" THEN AckLog(log, hw, outcome) ELSE log

\* the handler returned or threw: the consumer acknowledges the message
Acked(w, hw, outcome) ==
  /\ h' = [h EXCEPT ![w] = Idle]
  /\ log' = AckLog(log, hw, outcome)

\* the handler goes on to its next await
Goto(w, hw) == h' = [h EXCEPT ![w] = hw] /\ UNCHANGED log

\* return from createTodoList / createTodoItem to the caller's next await, or out
\* of the handler
Return(w, hw) ==
  IF hw.stack = <<>>
  THEN Acked(w, hw, "ok")
  ELSE Goto(w, [hw EXCEPT !.pc = Head(hw.stack), !.stack = Tail(hw.stack)])

\* createTodoList without its already-synced check
CL_findUnchecked(w) ==
  /\ h[w].pc = "CL_find"
  /\ LET l == h[w].arg
         hw == Did(h[w], ReadList(l, "find-list-todos"))
     IN IF l \notin DOMAIN lists THEN Acked(w, hw, "NotFound")
        ELSE Goto(w, [hw EXCEPT !.pc = "CL_post", !.list = LoadList(l)])
  /\ UNCHANGED <<local, remote, queue, rec, budget>>

\* createTodoList: findOne with todos; NotFound, already synced, or go on to POST
CL_find(w) ==
  /\ h[w].pc = "CL_find"
  /\ LET l == h[w].arg
         hw == Did(h[w], ReadList(l, "find-list-todos"))
     IN IF l \notin DOMAIN lists THEN Acked(w, hw, "NotFound")
        ELSE IF lists[l].ext # Null THEN Return(w, hw)
        ELSE Goto(w, [hw EXCEPT !.pc = "CL_post", !.list = LoadList(l)])
  /\ UNCHANGED <<local, remote, queue, rec, budget>>

\* history: the POST was answered with the new list's id and the echoed items
Posted(hw) ==
  Did(hw, [CallOf(hw) EXCEPT !.res = "ok", !.ext = PostResp(hw.list.todos).id,
                             !.echo = PostResp(hw.list.todos).items])

\* createTodoList: httpClient.post('/todolists', requestBody) succeeds
CL_post(w) ==
  /\ h[w].pc = "CL_post"
  /\ PostFits(h[w].list.todos)
  /\ LET c == CallOf(h[w]) IN PostRemote(c.src, c.name, c.items)
  /\ h' = [h EXCEPT ![w] = [Posted(h[w]) EXCEPT
                              !.pc = "CL_saveList",
                              !.resp = PostResp(h[w].list.todos)]]
  /\ log' = PostLog(log, ToStr(h[w].list.id), h[w].list.todos)
  /\ UNCHANGED <<local, queue, rec, budget>>

\* createTodoList: the POST fails and nothing was created remotely
CL_postFail(w) ==
  /\ h[w].pc = "CL_post"
  /\ CanFail /\ Failed
  /\ Acked(w, Called(h[w], "failed"), "RemoteFailed")
  /\ UNCHANGED <<local, remote, queue, rec>>

\* createTodoList: the remote created the list but the response never arrived
CL_postLost(w) ==
  /\ h[w].pc = "CL_post"
  /\ CanFail /\ Failed
  /\ PostFits(h[w].list.todos)
  /\ LET c == CallOf(h[w]) IN PostRemote(c.src, c.name, c.items)
  /\ h' = [h EXCEPT ![w] = Idle]
  /\ log' = [AckLog(PostLog(log, ToStr(h[w].list.id), h[w].list.todos),
                     Called(h[w], "lost"), "RemoteFailed")
               EXCEPT !.lost = @ \cup {nextRList}]
  /\ UNCHANGED <<local, queue, rec>>

\* no item of the response is matched to a todo
EchoedNone(hw) == {}

\* the items of the response, in order, that name a todo of the loaded list
Echoed(hw) ==
  {i \in DOMAIN hw.resp.items :
     \E t \in DOMAIN hw.list.todos : ToStr(t) = hw.resp.items[i]}

\* the entity is saved with the external_id it was loaded with
StaleExternalId(hw) == hw.list.ext

\* todoList.external_id = externalTodoList.id
SavedExternalId(hw) == hw.resp.id

\* createTodoList: the entity gets the response's id; save(todoList)
CL_saveList(w) ==
  /\ h[w].pc = "CL_saveList"
  /\ lists' = SaveList(lists, h[w].list.id, h[w].list.name, SavedExternalId(h[w]))
  /\ LET hw == [Did(h[w], WroteList(h[w].list.id, h[w].list.name,
                                    SavedExternalId(h[w])))
                  EXCEPT !.list.ext = SavedExternalId(h[w]),
                         !.k = NextAbove(Echoed(h[w]), Null)]
     IN IF hw.k = Null THEN Return(w, hw)
        ELSE Goto(w, [hw EXCEPT !.pc = "CL_saveTodo"])
  /\ UNCHANGED <<todos, nextListId, nextTodoId, remote, queue, rec, budget>>

\* createTodoList: localTodo.external_id = externalItem.id; save(localTodo)
CL_saveTodo(w) ==
  /\ h[w].pc = "CL_saveTodo"
  /\ LET i == h[w].k
         t == CHOOSE u \in DOMAIN h[w].list.todos : ToStr(u) = h[w].resp.items[i]
         lt == h[w].list.todos[t]
         hw == [Did(h[w], WroteTodo(t, lt.title, lt.completed, i))
                  EXCEPT !.list.todos[t].ext = i,
                         !.k = NextAbove(Echoed(h[w]), i)]
     IN /\ todos' = SaveTodo(todos, t, lt.title, lt.completed, i)
        /\ IF hw.k = Null THEN Return(w, hw)
           ELSE Goto(w, hw)
  /\ UNCHANGED <<lists, nextListId, nextTodoId, remote, queue, rec, budget>>

\* updateTodoList without its not-synced-yet branch
UL_findSynced(w) ==
  /\ h[w].pc = "UL_find"
  /\ LET l == h[w].arg
         hw == Did(h[w], ReadList(l, "find-list"))
     IN IF l \notin DOMAIN lists THEN Acked(w, hw, "NotFound")
        ELSE Goto(w, [hw EXCEPT !.pc = "UL_patch",
                                !.list = [LoadList(l) EXCEPT !.todos = Empty]])
  /\ UNCHANGED <<local, remote, queue, rec, budget>>

\* updateTodoList: findOne; NotFound, createTodoList when unsynced, or go on to PATCH
UL_find(w) ==
  /\ h[w].pc = "UL_find"
  /\ LET l == h[w].arg
         hw == Did(h[w], ReadList(l, "find-list"))
     IN IF l \notin DOMAIN lists THEN Acked(w, hw, "NotFound")
        ELSE Goto(w, IF lists[l].ext = Null THEN [hw EXCEPT !.pc = "CL_find"]
                     ELSE [hw EXCEPT !.pc = "UL_patch",
                                     !.list = [LoadList(l) EXCEPT !.todos = Empty]])
  /\ UNCHANGED <<local, remote, queue, rec, budget>>

\* updateTodoList: httpClient.patch(`/todolists/${external_id}`, { name })
UL_patch(w) ==
  /\ h[w].pc = "UL_patch"
  /\ IF h[w].list.ext \in DOMAIN rlists
     THEN /\ PatchListRemote(CallOf(h[w]).ext, CallOf(h[w]).name)
          /\ Acked(w, Called(h[w], "ok"), "ok")
     ELSE /\ UNCHANGED remote
          /\ Acked(w, Called(h[w], "404"), "RemoteFailed")
  /\ UNCHANGED <<local, queue, rec, budget>>

\* deleteTodoList: findOne; nothing to do when the row is gone or never synced
DL_find(w) ==
  /\ h[w].pc = "DL_find"
  /\ LET l == h[w].arg
         hw == Did(h[w], ReadList(l, "find-list"))
     IN IF l \notin DOMAIN lists \/ lists[l].ext = Null THEN Acked(w, hw, "ok")
        ELSE Goto(w, [hw EXCEPT !.pc = "DL_delete",
                                !.list = [LoadList(l) EXCEPT !.todos = Empty]])
  /\ UNCHANGED <<local, remote, queue, rec, budget>>

\* a 404 answer to the delete is rethrown like any other failure
DL_deleteStrict(w) ==
  /\ h[w].pc = "DL_delete"
  /\ DeleteListRemote(CallOf(h[w]).ext)
  /\ IF h[w].list.ext \in DOMAIN rlists
     THEN Acked(w, Called(h[w], "ok"), "ok")
     ELSE Acked(w, Called(h[w], "404"), "RemoteFailed")
  /\ UNCHANGED <<local, queue, rec, budget>>

\* deleteTodoList: httpClient.delete(`/todolists/${external_id}`); 404 is success
DL_delete(w) ==
  /\ h[w].pc = "DL_delete"
  /\ DeleteListRemote(CallOf(h[w]).ext)
  /\ Acked(w, Called(h[w], IF h[w].list.ext \in DOMAIN rlists THEN "ok" ELSE "404"),
            "ok")
  /\ UNCHANGED <<local, queue, rec, budget>>

\* a createTodoList call that has read todo t and has not had its answer yet
CreatingUntilAnswer(t) ==
  \E v \in Workers : h[v].pc = "CL_post" /\ t \in DOMAIN h[v].list.todos

\* a createTodoList call that has read todo t with its list and has not returned
Creating(t) ==
  \E v \in Workers : /\ h[v].pc \in {"CL_post", "CL_saveList", "CL_saveTodo"}
                      /\ t \in DOMAIN h[v].list.todos

\* history: todo t was found unsynced in a synced list and the warning logged,
\* with or without such a call in progress
WarnLog(lg, t) ==
  [lg EXCEPT !.warned = @ \cup {[id |-> t, alone |-> ~Creating(t)]}]

\* createTodoItem checks the todo only, not its list
CI_findTodoOnly(w) ==
  /\ h[w].pc = "CI_find"
  /\ LET t == h[w].ev.id
         hw == Did(h[w], ReadTodo(t))
     IN IF t \notin DOMAIN todos
        THEN Acked(w, hw, "NotFound")
        ELSE LET td == LoadTodo(t) IN
             IF td.ext # Null THEN Return(w, hw)
             ELSE IF td.listExt = Null
             THEN Goto(w, [hw EXCEPT !.pc = "CL_find", !.arg = td.listId,
                                     !.stack = <<"CI_refetch">> \o @])
             ELSE /\ h' = [h EXCEPT ![w] = Idle]
                  /\ log' = AckLog(WarnLog(log, t), Did(hw, Warned(t)), "ok")
  /\ UNCHANGED <<local, remote, queue, rec, budget>>

\* createTodoItem: findOne with todoList; NotFound, already synced, createTodoList
\* when the list is unsynced, otherwise the warning and return
CI_find(w) ==
  /\ h[w].pc = "CI_find"
  /\ LET t == h[w].ev.id
         hw == Did(h[w], ReadTodo(t))
     IN IF t \notin DOMAIN todos \/ LoadTodo(t).listId = Null
        THEN Acked(w, hw, "NotFound")
        ELSE LET td == LoadTodo(t) IN
             IF td.ext # Null THEN Return(w, hw)
             ELSE IF td.listExt = Null
             THEN Goto(w, [hw EXCEPT !.pc = "CL_find", !.arg = td.listId,
                                     !.stack = <<"CI_refetch">> \o @])
             ELSE /\ h' = [h EXCEPT ![w] = Idle]
                  /\ log' = AckLog(WarnLog(log, t), Did(hw, Warned(t)), "ok")
  /\ UNCHANGED <<local, remote, queue, rec, budget>>

\* createTodoItem: re-fetch the todo after createTodoList; return when it is
\* synced, otherwise the warning and return
CI_refetch(w) ==
  /\ h[w].pc = "CI_refetch"
  /\ LET t == h[w].ev.id
         hw == Did(h[w], ReadTodo(t))
     IN IF t \in DOMAIN todos /\ todos[t].ext # Null THEN Return(w, hw)
        ELSE Return(w, Did(hw, Warned(t)))
  /\ UNCHANGED <<local, remote, queue, rec, budget>>

\* updateTodoItem: findOne with todoList; NotFound, createTodoItem when unsynced,
\* createTodoList when the list is unsynced, or go on to PATCH
UI_find(w) ==
  /\ h[w].pc = "UI_find"
  /\ LET t == h[w].ev.id
         hw == Did(h[w], ReadTodo(t))
     IN IF t \notin DOMAIN todos \/ LoadTodo(t).listId = Null
        THEN Acked(w, hw, "NotFound")
        ELSE LET td == LoadTodo(t) IN
             Goto(w, IF td.ext = Null THEN [hw EXCEPT !.pc = "CI_find"]
                     ELSE IF td.listExt = Null
                     THEN [hw EXCEPT !.pc = "CL_find", !.arg = td.listId,
                                     !.todo = td, !.stack = <<"UI_refetch">>]
                     ELSE [hw EXCEPT !.pc = "UI_patch", !.todo = td])
  /\ UNCHANGED <<local, remote, queue, rec, budget>>

\* the update is addressed by the external ids read before createTodoList
UI_refetchStale(w) ==
  /\ h[w].pc = "UI_refetch"
  /\ LET t == h[w].ev.id
         hw == Did(h[w], ReadTodo(t))
     IN IF t \notin DOMAIN todos \/ todos[t].ext = Null \/ LoadTodo(t).listId = Null
        THEN Acked(w, hw, "InternalError")
        ELSE Goto(w, [hw EXCEPT !.pc = "UI_patch"])
  /\ UNCHANGED <<local, remote, queue, rec, budget>>

\* updateTodoItem: re-fetch after createTodoList; InternalError when the todo is
\* gone or unsynced, otherwise take over the two external ids
UI_refetch(w) ==
  /\ h[w].pc = "UI_refetch"
  /\ LET t == h[w].ev.id
         hw == Did(h[w], ReadTodo(t))
     IN IF t \notin DOMAIN todos \/ todos[t].ext = Null \/ LoadTodo(t).listId = Null
        THEN Acked(w, hw, "InternalError")
        ELSE Goto(w, [hw EXCEPT !.pc = "UI_patch", !.todo.ext = todos[t].ext,
                                !.todo.listExt = LoadTodo(t).listExt])
  /\ UNCHANGED <<local, remote, queue, rec, budget>>

\* updateTodoItem: httpClient.patch(`/todolists/${list}/todoitems/${item}`,
\* { description: todo.title, completed: todo.completed })
UI_patch(w) ==
  /\ h[w].pc = "UI_patch"
  /\ LET c == CallOf(h[w]) IN
       IF ItemAt(c.lext, c.ext)
       THEN /\ PatchItemRemote(c.lext, c.ext, c.title, c.completed)
            /\ Acked(w, Called(h[w], "ok"), "ok")
       ELSE /\ UNCHANGED remote
            /\ Acked(w, Called(h[w], "404"), "RemoteFailed")
  /\ UNCHANGED <<local, queue, rec, budget>>

\* deleteTodoItem without the check of the todo's list
DI_findItemOnly(w) ==
  /\ h[w].pc = "DI_find"
  /\ LET t == h[w].ev.id
         hw == Did(h[w], ReadTodo(t))
     IN IF t \notin DOMAIN todos \/ todos[t].ext = Null
        THEN Acked(w, hw, "ok")
        ELSE Goto(w, [hw EXCEPT !.pc = "DI_delete", !.todo = LoadTodo(t)])
  /\ UNCHANGED <<local, remote, queue, rec, budget>>

\* deleteTodoItem: findOne with todoList; nothing to do when the row is gone, the
\* todo was never synced or its list is missing or unsynced
DI_find(w) ==
  /\ h[w].pc = "DI_find"
  /\ LET t == h[w].ev.id
         hw == Did(h[w], ReadTodo(t))
     IN IF t \notin DOMAIN todos \/ todos[t].ext = Null \/ LoadTodo(t).listExt = Null
        THEN Acked(w, hw, "ok")
        ELSE Goto(w, [hw EXCEPT !.pc = "DI_delete", !.todo = LoadTodo(t)])
  /\ UNCHANGED <<local, remote, queue, rec, budget>>

\* deleteTodoItem: httpClient.delete(`/todolists/${list}/todoitems/${item}`);
\* 404 is success
DI_delete(w) ==
  /\ h[w].pc = "DI_delete"
  /\ LET c == CallOf(h[w]) IN
       /\ DeleteItemRemote(c.lext, c.ext)
       /\ Acked(w, Called(h[w], IF ItemAt(c.lext, c.ext) THEN "ok" ELSE "404"), "ok")
  /\ UNCHANGED <<local, queue, rec, budget>>

\* any PATCH or DELETE of a running handler fails for a reason other than 404
CallFail(w) ==
  /\ h[w].pc \in {"UL_patch", "DL_delete", "UI_patch", "DI_delete"}
  /\ CanFail /\ Failed
  /\ Acked(w, Called(h[w], "failed"), "RemoteFailed")
  /\ UNCHANGED <<local, remote, queue, rec>>

\* ------------------------------------------------------------------ mutations
CanMutate == budget.muts > 0
Mutated == budget' = [budget EXCEPT !.muts = @ - 1]

\* TodoListsService.create: a new unsynced list, then the create-todo-list event
CreateList ==
  /\ CanMutate /\ Mutated
  /\ nextListId <= MaxLists
  /\ \E name \in Names :
       lists' = Put(lists, nextListId, [name |-> name, ext |-> Null])
  /\ nextListId' = nextListId + 1
  /\ Emit("create-todo-list", nextListId)
  /\ UNCHANGED <<todos, nextTodoId, remote, h, rec, log>>

\* TodoListsService.update: the name changes, then the update-todo-list event
UpdateList ==
  /\ CanMutate /\ Mutated
  /\ \E l \in DOMAIN lists, name \in Names :
       /\ lists' = [lists EXCEPT ![l].name = name]
       /\ Emit("update-todo-list", l)
  /\ UNCHANGED <<todos, nextListId, nextTodoId, remote, h, rec, log>>

\* TodoListsService.delete: the list goes with its todos, then the
\* delete-todo-list event
DeleteList ==
  /\ CanMutate /\ Mutated
  /\ \E l \in DOMAIN lists :
       /\ lists' = Drop(lists, {l})
       /\ todos' = Drop(todos, TodosOf(todos, l))
       /\ Emit("delete-todo-list", l)
  /\ UNCHANGED <<nextListId, nextTodoId, remote, h, rec, log>>

\* history: list l is unsynced, its create-todo-list event is still to be
\* delivered and no handler is running
NeverSynced(l) ==
  /\ lists[l].ext = Null
  /\ \E i \in 1..Len(queue) : queue[i] = Event("create-todo-list", l)
  /\ \A w \in Workers : h[w].pc = "idle"

\* TodosService.create: the list must exist; the todo is saved uncompleted and
\* unsynced, then the create-todo-item event
CreateTodo ==
  /\ CanMutate /\ Mutated
  /\ nextTodoId <= MaxTodos
  /\ \E l \in DOMAIN lists, title \in Titles :
       todos' = Put(todos, nextTodoId, [title |-> title, completed |-> FALSE,
                                        ext |-> Null, list |-> l])
  /\ nextTodoId' = nextTodoId + 1
  /\ Emit("create-todo-item", nextTodoId)
  /\ log' = [log EXCEPT !.fresh = @ \cup {t \in {nextTodoId} :
                                             NeverSynced(todos'[t].list)}]
  /\ UNCHANGED <<lists, nextListId, remote, h, rec>>

\* TodosService.update: save({ id, ...dto }) writes the dto's fields only, then
\* the update-todo-item event
UpdateTodo ==
  /\ CanMutate /\ Mutated
  /\ \E t \in DOMAIN todos, title \in Titles, completed \in BOOLEAN :
       /\ todos' = [todos EXCEPT ![t].title = title, ![t].completed = completed]
       /\ Emit("update-todo-item", t)
  /\ UNCHANGED <<lists, nextListId, nextTodoId, remote, h, rec, log>>

\* TodosService.delete: the row is deleted, then the delete-todo-item event
DeleteTodo ==
  /\ CanMutate /\ Mutated
  /\ \E t \in DOMAIN todos :
       /\ todos' = Drop(todos, {t})
       /\ log' = [log EXCEPT !.deleted = @ \cup
                    {[id |-> t, ext |-> todos[t].ext, listExt |-> LoadTodo(t).listExt]}]
       /\ Emit("delete-todo-item", t)
  /\ UNCHANGED <<lists, nextListId, nextTodoId, remote, h, rec>>

\* ------------------------------------------------------------------ inbound
NoSnapshot == [lists |-> Empty, items |-> Empty]
\* what a pass knows of the moment it fetched (history only)
NoFetch == [pending |-> {}, muts |-> 0, acks |-> {}, np |-> 0, quiet |-> FALSE]
RIdle == [pc |-> "idle", ext |-> NoSnapshot, loc |-> Empty, cur |-> Null,
          item |-> Null, lid |-> Null, needsUpdate |-> FALSE, fetch |-> NoFetch]

\* externalTodoLists.filter((list) => !list.source_id) and its complement
WithoutSourceId(ext) == {r \in DOMAIN ext.lists : ext.lists[r].source_id = NoSource}
WithSourceId(ext) == {r \in DOMAIN ext.lists : ext.lists[r].source_id # NoSource}

\* the pass has run to its end, or has thrown
PassDone(rc) == [RIdle EXCEPT !.pc = "R_end", !.ext = rc.ext, !.fetch = rc.fetch]
PassThrown(rc) == [RIdle EXCEPT !.pc = "R_throw", !.ext = rc.ext, !.fetch = rc.fetch]

\* history: no handler is running and no message is queued
Quiet == queue = <<>> /\ \A w \in Workers : h[w].pc = "idle"
\* history: no other pass is in progress
Alone(p) == \A q \in Ticks \ {p} : rec[q].pc = "idle"
\* history: how a pass ended, its snapshot, the local store it left, and
\* whether it ran from its fetch to its end with nothing else running
EndLog(lg, outcome, rc, alone) ==
  [lg EXCEPT !.passes = Append(@,
     [outcome |-> outcome, ext |-> rc.ext, local |-> <<lists, todos>>,
      muts |-> budget.muts, acks |-> lg.acks, pending |-> rc.fetch.pending,
      quiet |-> /\ rc.fetch.quiet /\ Quiet /\ alone
                /\ rc.fetch.muts = budget.muts /\ rc.fetch.acks = lg.acks
                /\ rc.fetch.np = Len(lg.passes)])]

\* the next iteration of the second loop, or the end of the pass
NextWithSource(rc, after) ==
  LET n == NextAbove(WithSourceId(rc.ext), after)
  IN IF n = Null THEN PassDone(rc)
     ELSE [rc EXCEPT !.pc = "R_list", !.cur = n, !.item = Null, !.lid = Null,
                     !.needsUpdate = FALSE]

\* the next iteration of the first loop, or the start of the second
NextWithoutSource(rc, after) ==
  LET n == NextAbove(WithoutSourceId(rc.ext), after)
  IN IF n = Null THEN NextWithSource(rc, Null)
     ELSE [rc EXCEPT !.pc = "R_newList", !.cur = n, !.lid = Null]

Move(p, rc) == rec' = [rec EXCEPT ![p] = rc] /\ UNCHANGED log

\* history: the lists whose creation push failed with nothing created remotely
PushFailed(lg) ==
  {a.ev.id : a \in {b \in lg.acks : /\ b.ev.type = "create-todo-list"
                                     /\ b.outcome = "RemoteFailed"}} \
  {ParseInt(lg.lsrc[r]) : r \in lg.lost}

\* SyncScheduler.handleSyncFromExternal -> syncFromExternal: the timer fires,
\* whether or not an earlier pass is still running; GET /todolists
R_fetch(p) ==
  /\ rec[p].pc = "idle"
  /\ \A q \in Ticks : q < p => rec[q].pc # "idle"
  /\ budget.passes > 0
  /\ budget' = [budget EXCEPT !.passes = @ - 1]
  /\ rec' = [rec EXCEPT ![p] =
               [RIdle EXCEPT !.pc = "R_findLocal",
                             !.ext = [lists |-> rlists, items |-> ritems],
                             !.fetch = [pending |-> PushFailed(log),
                                        muts |-> budget.muts, acks |-> log.acks,
                                        np |-> Len(log.passes),
                                        quiet |-> Quiet /\ Alone(p)]]]
  /\ UNCHANGED <<local, remote, queue, h, log>>

\* the failure of the GET is swallowed: the pass ends as if it had succeeded
R_fetchFailSwallowed ==
  /\ budget.passes > 0
  /\ CanFail
  /\ budget' = [budget EXCEPT !.passes = @ - 1, !.fails = @ - 1]
  /\ log' = EndLog(log, "ok", RIdle, FALSE)
  /\ UNCHANGED <<local, remote, queue, h, rec>>

\* the GET fails: the pass throws, the scheduler logs it
R_fetchFail ==
  /\ budget.passes > 0
  /\ CanFail
  /\ budget' = [budget EXCEPT !.passes = @ - 1, !.fails = @ - 1]
  /\ log' = EndLog(log, "failed", RIdle, FALSE)
  /\ UNCHANGED <<local, remote, queue, h, rec>>

\* todoListRepository.find({ relations: ['todos'] }) and the two filters
R_findLocal(p) ==
  /\ rec[p].pc = "R_findLocal"
  /\ Move(p, NextWithoutSource(
                [rec[p] EXCEPT !.loc = [l \in DOMAIN lists |-> LoadList(l)]], Null))
  /\ UNCHANGED <<local, remote, queue, h, budget>>

\* first loop: save a new local list for a remote list without source_id
R_newList(p) ==
  /\ rec[p].pc = "R_newList"
  /\ nextListId <= MaxLists
  /\ LET rc == rec[p] IN
       /\ lists' = Put(lists, nextListId, [name |-> rc.ext.lists[rc.cur].name,
                                           ext |-> rc.cur])
       /\ Move(p, IF ItemsOf(rc.ext.items, rc.cur) # {}
                  THEN [rc EXCEPT !.pc = "R_newTodos", !.lid = nextListId]
                  ELSE NextWithoutSource(rc, rc.cur))
  /\ nextListId' = nextListId + 1
  /\ UNCHANGED <<todos, nextTodoId, remote, queue, h, budget>>

\* the todo id the n-th smallest remote item of a list gets
NewTodoId(is, i) == nextTodoId + Cardinality({j \in is : j < i})

\* first loop: save(todosToCreate), one todo per remote item, in one call; the
\* insert fails on the foreign key when the new list is gone again
R_newTodos(p) ==
  /\ rec[p].pc = "R_newTodos"
  /\ LET rc == rec[p]
         is == ItemsOf(rc.ext.items, rc.cur)
     IN IF rc.lid \notin DOMAIN lists
        THEN /\ Move(p, PassThrown(rc))
             /\ UNCHANGED <<todos, nextTodoId>>
        ELSE /\ nextTodoId + Cardinality(is) - 1 <= MaxTodos
             /\ todos' = [t \in DOMAIN todos \cup {NewTodoId(is, i) : i \in is} |->
                           IF t \in DOMAIN todos THEN todos[t]
                           ELSE LET i == CHOOSE j \in is : NewTodoId(is, j) = t
                                IN [title |-> rc.ext.items[i].description,
                                    completed |-> rc.ext.items[i].completed,
                                    ext |-> i, list |-> rc.lid]]
             /\ nextTodoId' = nextTodoId + Cardinality(is)
             /\ rec' = [rec EXCEPT ![p] = NextWithoutSource(rc, rc.cur)]
             /\ log' = [log EXCEPT !.made = @ \cup {<<NewTodoId(is, i), i>> : i \in is}]
  /\ UNCHANGED <<lists, nextListId, remote, queue, h, budget>>

\* parseInt(externalTodoList.source_id, 10)
LocalIdOf(rc) == ParseInt(rc.ext.lists[rc.cur].source_id)

\* the second loop goes on to the items of the current list, or to its save
ToItems(rc) ==
  LET i == NextAbove(ItemsOf(rc.ext.items, rc.cur), rc.item)
  IN IF i = Null THEN [rc EXCEPT !.pc = "R_saveList", !.item = Null]
     ELSE [rc EXCEPT !.pc = "R_item", !.item = i]

\* second loop, local list found: diff name and external_id in memory
R_list(p) ==
  /\ rec[p].pc = "R_list"
  /\ LocalIdOf(rec[p]) \in DOMAIN rec[p].loc
  /\ LET rc == rec[p]
         l == LocalIdOf(rc)
         e == rc.ext.lists[rc.cur]
     IN Move(p, ToItems([rc EXCEPT
               !.lid = l,
               !.needsUpdate = rc.loc[l].name # e.name \/ rc.loc[l].ext # rc.cur,
               !.loc[l].name = e.name,
               !.loc[l].ext = rc.cur]))
  /\ UNCHANGED <<local, remote, queue, h, budget>>

\* history: the pass of tick p that fetched after np passes had ended asked the
\* remote to delete list r
DeleteLog(lg, p, r) == [lg EXCEPT !.rdel = @ \cup {<<p, rec[p].fetch.np, r>>}]

\* the delete is addressed by the local id the source_id names
R_deleteBySourceId(p) ==
  /\ rec[p].pc = "R_list"
  /\ LocalIdOf(rec[p]) \notin DOMAIN rec[p].loc
  /\ DeleteListRemote(LocalIdOf(rec[p]))
  /\ rec' = [rec EXCEPT ![p] = NextWithSource(rec[p], rec[p].cur)]
  /\ log' = DeleteLog(log, p, LocalIdOf(rec[p]))
  /\ UNCHANGED <<local, queue, h, budget>>

\* second loop, local list not found: delete the remote list and continue
R_delete(p) ==
  /\ rec[p].pc = "R_list"
  /\ LocalIdOf(rec[p]) \notin DOMAIN rec[p].loc
  /\ DeleteListRemote(rec[p].cur)
  /\ rec' = [rec EXCEPT ![p] = NextWithSource(rec[p], rec[p].cur)]
  /\ log' = DeleteLog(log, p, rec[p].cur)
  /\ UNCHANGED <<local, queue, h, budget>>

\* the failure of the remote delete is rethrown: the pass is aborted
R_deleteFailThrown(p) ==
  /\ rec[p].pc = "R_list"
  /\ LocalIdOf(rec[p]) \notin DOMAIN rec[p].loc
  /\ CanFail /\ Failed
  /\ rec' = [rec EXCEPT ![p] = PassThrown(rec[p])]
  /\ log' = DeleteLog(log, p, rec[p].cur)
  /\ UNCHANGED <<local, remote, queue, h>>

\* the remote delete fails: logged, the loop continues
R_deleteFail(p) ==
  /\ rec[p].pc = "R_list"
  /\ LocalIdOf(rec[p]) \notin DOMAIN rec[p].loc
  /\ CanFail /\ Failed
  /\ rec' = [rec EXCEPT ![p] = NextWithSource(rec[p], rec[p].cur)]
  /\ log' = DeleteLog(log, p, rec[p].cur)
  /\ UNCHANGED <<local, remote, queue, h>>

\* new Map(localTodos.filter((t) => t.external_id).map((t) => [t.external_id, t]))
\* .get(i): the last todo of the loaded list with that external id, or Null
LocalTodoByExternalId(ts, i) ==
  IF \E t \in DOMAIN ts : ts[t].ext = i
  THEN Max({t \in DOMAIN ts : ts[t].ext = i})
  ELSE Null

\* only the title is compared
TitleNeedsUpdate(lt, e) == lt.title # e.description

\* titleNeedsUpdate || completedNeedsUpdate
ItemNeedsUpdate(lt, e) == lt.title # e.description \/ lt.completed # e.completed

\* second loop, one remote item: create the todo locally when no loaded todo has
\* its id, update title and completed when they differ, else nothing
R_item(p) ==
  /\ rec[p].pc = "R_item"
  /\ LET rc == rec[p]
         l == rc.lid
         i == rc.item
         e == rc.ext.items[i]
         t == LocalTodoByExternalId(rc.loc[l].todos, i)
     IN IF t = Null
        THEN IF l \notin DOMAIN lists
             THEN /\ Move(p, PassThrown(rc))
                  /\ UNCHANGED <<todos, nextTodoId>>
             ELSE /\ nextTodoId <= MaxTodos
                  /\ todos' = Put(todos, nextTodoId,
                                  [title |-> e.description, completed |-> e.completed,
                                   ext |-> i, list |-> l])
                  /\ nextTodoId' = nextTodoId + 1
                  /\ rec' = [rec EXCEPT ![p] = ToItems(rc)]
                  /\ log' = [log EXCEPT !.made = @ \cup {<<nextTodoId, i>>}]
        ELSE LET lt == rc.loc[l].todos[t] IN
             IF ItemNeedsUpdate(lt, e)
             THEN /\ todos' = SaveTodo(todos, t, e.description, e.completed, lt.ext)
                  /\ Move(p, ToItems([rc EXCEPT
                            !.loc[l].todos[t].title = e.description,
                            !.loc[l].todos[t].completed = e.completed]))
                  /\ UNCHANGED nextTodoId
             ELSE /\ Move(p, ToItems(rc))
                  /\ UNCHANGED <<todos, nextTodoId>>
  /\ UNCHANGED <<lists, nextListId, remote, queue, h, budget>>

\* the save also removes the loaded todos of the list whose external id is not
\* among the remote list's items
R_saveListPruned(p) ==
  /\ rec[p].pc = "R_saveList"
  /\ LET rc == rec[p]
         gone == {t \in DOMAIN rc.loc[rc.lid].todos :
                    /\ rc.loc[rc.lid].todos[t].ext # Null
                    /\ rc.loc[rc.lid].todos[t].ext \notin ItemsOf(rc.ext.items, rc.cur)}
     IN
       /\ lists' = IF rc.needsUpdate
                   THEN SaveList(lists, rc.lid, rc.loc[rc.lid].name, rc.loc[rc.lid].ext)
                   ELSE lists
       /\ todos' = Drop(todos, gone)
       /\ Move(p, NextWithSource(rc, rc.cur))
  /\ UNCHANGED <<nextListId, nextTodoId, remote, queue, h, budget>>

\* second loop: save(localTodoList) when name or external_id changed
R_saveList(p) ==
  /\ rec[p].pc = "R_saveList"
  /\ LET rc == rec[p] IN
       /\ lists' = IF rc.needsUpdate
                   THEN SaveList(lists, rc.lid, rc.loc[rc.lid].name, rc.loc[rc.lid].ext)
                   ELSE lists
       /\ Move(p, NextWithSource(rc, rc.cur))
  /\ UNCHANGED <<todos, nextListId, nextTodoId, remote, queue, h, budget>>

\* syncFromExternal returns or rethrows; the scheduler logs an error
R_end(p) ==
  /\ rec[p].pc \in {"R_end", "R_throw"}
  /\ rec' = [rec EXCEPT ![p] = RIdle]
  /\ log' = EndLog(log, IF rec[p].pc = "R_end" THEN "ok" ELSE "failed", rec[p],
                   Alone(p))
  /\ UNCHANGED <<local, remote, queue, h, budget>>

\* ------------------------------------------------------------------ specification
\* lsrc, isrc: the source_id every remote list and item was created with;
\* lost: remote lists whose creation response never arrived; made: <<todo, item>>
\* for every todo a pass created from a remote item; acks: acknowledged messages
\* with the handler's outcome; deleted: todos deleted locally, with their external
\* ids at that time; fresh: todos created in a list that was never synced and
\* whose creation event was still to be handled;
\* nd, na: how many messages were delivered and how many acknowledged;
\* rdel: <<tick, passes ended before, remote list>> for every remote list delete
\* a pass issued; warned: the todos createTodoItem found unsynced in a synced
\* list; keep: whether this run keeps the handlers' traces; fin: the
\* handlings that ended, in order, each with its event, outcome and trace;
\* passes: how every pass so far ended; replay: whether the one message of a
\* replay run was delivered again, the stores the run started with and the
\* stores as the first handling left them
NoLog == [lsrc |-> Empty, isrc |-> Empty, lost |-> {}, made |-> {}, acks |-> {},
          deleted |-> {}, fresh |-> {},
          rdel |-> {}, passes |-> <<>>, nd |-> 0, na |-> 0, fin |-> <<>>,
          keep |-> FALSE, warned |-> {},
          replay |-> [n |-> 0, start |-> <<>>, once |-> <<>>]]

\* nothing is running and nothing is queued; the run may have m mutations and
\* p passes
AtRest(m, p) ==
  /\ queue = <<>>
  /\ h = [w \in Workers |-> Idle]
  /\ rec = [q \in Ticks |-> RIdle]
  /\ budget = [muts |-> m, fails |-> MaxFailures, passes |-> p]

\* both stores are empty
InitEmpty ==
  /\ lists = Empty /\ todos = Empty
  /\ nextListId = 1 /\ nextTodoId = 1
  /\ rlists = Empty /\ ritems = Empty
  /\ nextRList = 1 /\ nextRItem = 1
  /\ log = NoLog
  /\ AtRest(MaxMutations, MaxPasses)

\* list 1 and its todo 1 were created locally; their events are still queued
InitPending ==
  /\ lists = (1 :> [name |-> "n1", ext |-> Null])
  /\ todos = (1 :> [title |-> "t1", completed |-> FALSE, ext |-> Null, list |-> 1])
  /\ nextListId = 2 /\ nextTodoId = 2
  /\ rlists = Empty /\ ritems = Empty
  /\ nextRList = 1 /\ nextRItem = 1
  /\ log = [NoLog EXCEPT !.fresh = {1}]
  /\ queue = <<Event("create-todo-list", 1), Event("create-todo-item", 1)>>
  /\ h = [w \in Workers |-> Idle]
  /\ rec = [p \in Ticks |-> RIdle]
  /\ budget = [muts |-> PendingMutations, fails |-> MaxFailures,
               passes |-> MaxPasses]

\* list 1 with todo 1 was created locally and pushed: both are synced
InitSynced ==
  /\ lists = (1 :> [name |-> "n1", ext |-> 1])
  /\ todos = (1 :> [title |-> "t1", completed |-> FALSE, ext |-> 1, list |-> 1])
  /\ nextListId = 2 /\ nextTodoId = 2
  /\ rlists = (1 :> [source_id |-> ToStr(1), name |-> "n1"])
  /\ ritems = (1 :> [list |-> 1, source_id |-> ToStr(1), description |-> "t1",
                     completed |-> FALSE])
  /\ nextRList = 2 /\ nextRItem = 2
  /\ log = [NoLog EXCEPT
              !.lsrc = (1 :> ToStr(1)), !.isrc = (1 :> ToStr(1)), !.fresh = {1},
              !.acks = {[ev |-> Event("create-todo-list", 1), outcome |-> "ok"],
                        [ev |-> Event("create-todo-item", 1), outcome |-> "ok"]}]
  /\ AtRest(MaxMutations, MaxPasses)

\* the remote system holds a list with one item that was created there
InitRemote ==
  /\ lists = Empty /\ todos = Empty
  /\ nextListId = 1 /\ nextTodoId = 1
  /\ rlists = (1 :> [source_id |-> NoSource, name |-> "n1"])
  /\ ritems = (1 :> [list |-> 1, source_id |-> NoSource, description |-> "t1",
                     completed |-> FALSE])
  /\ nextRList = 2 /\ nextRItem = 2
  /\ log = [NoLog EXCEPT !.lsrc = (1 :> NoSource), !.isrc = (1 :> NoSource)]
  /\ AtRest(RemoteMutations, RemotePasses)

Init == InitEmpty \/ InitPending \/ InitSynced \/ InitRemote

Mutation ==
  \/ CreateList \/ UpdateList \/ DeleteList
  \/ CreateTodo \/ UpdateTodo \/ DeleteTodo

Outbound ==
  \E w \in Workers :
    \/ Deliver(w)
    \/ CL_find(w) \/ CL_post(w) \/ CL_postFail(w) \/ CL_postLost(w)
    \/ CL_saveList(w) \/ CL_saveTodo(w)
    \/ UL_find(w) \/ UL_patch(w)
    \/ DL_find(w) \/ DL_delete(w)
    \/ CI_find(w) \/ CI_refetch(w)
    \/ UI_find(w) \/ UI_refetch(w) \/ UI_patch(w)
    \/ DI_find(w)
    \/ CallFail(w)

Inbound ==
  \/ R_fetchFail
  \/ \E p \in Ticks :
       \/ R_fetch(p) \/ R_findLocal(p)
       \/ R_newList(p) \/ R_newTodos(p)
       \/ R_list(p) \/ R_delete(p) \/ R_deleteFail(p) \/ R_item(p)
       \/ R_saveList(p) \/ R_end(p)

Next == Mutation \/ Outbound \/ Inbound

Spec == Init /\ [][Next]_vars

\* ---------------------------------------------------------------- replay runs
\* the stores a replay run may start with: at most list 1 with todo 1 locally,
\* at most list 1 with item 1 remotely, every combination of their fields
ReplayLists ==
  {Empty} \cup {(1 :> [name |-> n, ext |-> e]) : n \in Names, e \in {Null, 1}}
ReplayTodos ==
  {Empty} \cup {(1 :> [title |-> ti, completed |-> c, ext |-> e, list |-> 1]) :
                  ti \in Titles, c \in BOOLEAN, e \in {Null, 1}}
ReplayRLists ==
  {Empty} \cup {(1 :> [source_id |-> src, name |-> n]) :
                  src \in {NoSource, ToStr(1)}, n \in Names}
ReplayRItems ==
  {Empty} \cup {(1 :> [list |-> 1, source_id |-> src, description |-> ti,
                        completed |-> c]) :
                  src \in {NoSource, ToStr(1)}, ti \in Titles, c \in BOOLEAN}

\* any such stores, one message of any kind queued, the remote available
InitReplay ==
  /\ lists \in ReplayLists
  /\ todos \in ReplayTodos /\ (lists = Empty => todos = Empty)
  /\ rlists \in ReplayRLists
  /\ ritems \in ReplayRItems /\ (rlists = Empty => ritems = Empty)
  /\ nextListId = 2 /\ nextTodoId = 2
  /\ nextRList = Cardinality(DOMAIN rlists) + 1
  /\ nextRItem = Cardinality(DOMAIN ritems) + 1
  /\ \E type \in ListEvents \cup ItemEvents : queue = <<Event(type, 1)>>
  /\ h = [w \in Workers |-> Idle]
  /\ rec = [p \in Ticks |-> RIdle]
  /\ budget = [muts |-> 0, fails |-> 0, passes |-> 0]
  /\ log = [NoLog EXCEPT
              !.lsrc = [r \in DOMAIN rlists |-> rlists[r].source_id],
              !.isrc = [i \in DOMAIN ritems |-> ritems[i].source_id],
              !.replay = [n |-> 0, start |-> <<local, remote>>, once |-> <<>>]]

\* the channel delivers the acknowledged message a second time
Redeliver ==
  /\ log.replay.n = 0
  /\ Quiet
  /\ \E a \in log.acks : queue' = <<a.ev>>
  /\ log' = [log EXCEPT !.replay.n = 1, !.replay.once = <<local, remote>>]
  /\ UNCHANGED <<local, remote, h, rec, budget>>

\* the handlers with every remote call answered
Handling ==
  \E w \in Workers :
    \/ Deliver(w)
    \/ CL_find(w) \/ CL_post(w) \/ CL_saveList(w) \/ CL_saveTodo(w)
    \/ UL_find(w) \/ UL_patch(w)
    \/ DL_find(w) \/ DL_delete(w)
    \/ CI_find(w) \/ CI_refetch(w)
    \/ UI_find(w) \/ UI_refetch(w) \/ UI_patch(w)
    \/ DI_find(w) \/ DI_delete(w)

NextReplay == Handling \/ Redeliver

SpecReplay == InitReplay /\ [][NextReplay]_vars

\* ---------------------------------------------------------------- handler runs
\* the stores a handler run may start with: at most list 1 with todo 1 locally,
\* synced or not, or todo 1 left without its list, and at most their remote
\* copies, which differ in name, title and completion
HandleLists ==
  {Empty} \cup {(1 :> [name |-> "n1", ext |-> e]) : e \in {Null, 1}}
HandleTodos ==
  {Empty} \cup {(1 :> [title |-> "t1", completed |-> FALSE, ext |-> e, list |-> l]) :
                  e \in {Null, 1}, l \in {Null, 1}}
HandleRLists == {Empty, (1 :> [source_id |-> ToStr(1), name |-> "n2"])}
HandleRItems ==
  {Empty, (1 :> [list |-> 1, source_id |-> ToStr(1), description |-> "t2",
                 completed |-> TRUE])}

\* any such stores, one message of any kind queued, local mutations and one
\* failing remote call to come, the handlers' traces kept
InitHandle ==
  /\ lists \in HandleLists
  /\ todos \in HandleTodos
  /\ \A t \in DOMAIN todos : todos[t].list \in DOMAIN lists \cup {Null}
  /\ rlists \in HandleRLists
  /\ ritems \in HandleRItems /\ (rlists = Empty => ritems = Empty)
  /\ nextListId = 2 /\ nextTodoId = 2
  /\ nextRList = Cardinality(DOMAIN rlists) + 1
  /\ nextRItem = Cardinality(DOMAIN ritems) + 1
  /\ \E type \in ListEvents \cup ItemEvents : queue = <<Event(type, 1)>>
  /\ h = [w \in Workers |-> Idle]
  /\ rec = [p \in Ticks |-> RIdle]
  /\ budget = [muts |-> HandleMutations, fails |-> MaxFailures, passes |-> 0]
  /\ log = [NoLog EXCEPT
              !.lsrc = [r \in DOMAIN rlists |-> rlists[r].source_id],
              !.isrc = [i \in DOMAIN ritems |-> ritems[i].source_id],
              !.keep = TRUE]

\* the handlers, with failing remote calls
Failing == \E w \in Workers : CL_postFail(w) \/ CL_postLost(w) \/ CallFail(w)

NextHandle == Mutation \/ Handling \/ Failing

SpecHandle == InitHandle /\ [][NextHandle]_vars

\* ------------------------------------------------------------------ claims
\* the message was acknowledged after its handler returned normally
Handled(type, id) == [ev |-> Event(type, id), outcome |-> "ok"] \in log.acks

\* the latest pass ran to its end without error
LastPass == log.passes[Len(log.passes)]
PassCompleted ==
  /\ \A p \in Ticks : rec[p].pc = "idle"
  /\ log.passes # <<>>
  /\ LastPass.outcome = "ok"

\* the latest pass completed, it ran alone from a state with every message
\* handled, and nothing has happened since
PassSettled ==
  /\ PassCompleted
  /\ LastPass.quiet
  /\ Quiet
  /\ LastPass.muts = budget.muts
  /\ LastPass.acks = log.acks

\* the message of a replay run was handled twice
Replayed == log.replay.n = 1 /\ Quiet

\* the remote lists ever created for local list l whose creation call returned
\* its response to the handler
PostsFor(l) ==
  {r \in DOMAIN log.lsrc : log.lsrc[r] = ToStr(l) /\ r \notin log.lost}

\* C1: for every local list at most one successful remote list-creation call
\* is ever issued, under every interleaving of outbound handlers.
C1_AtMostOnePost ==
  \A l \in 1..MaxLists : Cardinality(PostsFor(l)) <= 1

\* ids the remote system returned for a list or a todo
GaveList(lg, l, r) == r \in DOMAIN lg.lsrc /\ ParseInt(lg.lsrc[r]) = l
GaveItem(lg, t, i) ==
  \/ i \in DOMAIN lg.isrc /\ lg.isrc[i] = ToStr(t)
  \/ <<t, i>> \in lg.made

\* what one step may do to the external ids
C4_Step ==
  /\ \A l \in DOMAIN lists \cap DOMAIN lists' :
       lists[l].ext # Null =>
         /\ lists'[l].ext # Null
         /\ lists'[l].ext # lists[l].ext => GaveList(log', l, lists'[l].ext)
  /\ \A t \in DOMAIN todos \cap DOMAIN todos' :
       todos[t].ext # Null =>
         /\ todos'[t].ext # Null
         /\ todos'[t].ext # todos[t].ext => GaveItem(log', t, todos'[t].ext)
\* C4: in every step a list or todo whose externalId is set either ceases to
\* exist or keeps a non-null externalId, and the value changes only to an id
\* the remote system returned for that record.
C4_MonotonicIdentity == [][C4_Step]_vars

\* a synced todo in a synced list was updated, its event was handled and a pass
\* has run over it
C4_Witness ==
  /\ PassCompleted
  /\ \E t \in DOMAIN todos :
       /\ todos[t].ext # Null
       /\ todos[t].list \in DOMAIN lists
       /\ lists[todos[t].list].ext # Null
       /\ Handled("update-todo-item", t)

\* C6: in every persisted state, intermediate ones included, every todo with a
\* non-null externalId whose list exists is in a list with a non-null externalId.
C6_ItemSyncedOnlyInSyncedList ==
  \A t \in DOMAIN todos :
    (todos[t].ext # Null /\ todos[t].list \in DOMAIN lists)
    => lists[todos[t].list].ext # Null

\* C5: a todo created in a never-synced list, once the list's ListCreated event
\* and the todo's ItemCreated or ItemUpdated event are handled, has caused
\* exactly one remote list creation and carries the item id of that call.
C5_DependentSync ==
  \A t \in log.fresh \cap DOMAIN todos :
    LET l == todos[t].list IN
      ( /\ \A w \in Workers : h[w].pc = "idle"
        /\ l \in DOMAIN lists
        /\ Handled("create-todo-list", l)
        /\ Handled("create-todo-item", t) \/ Handled("update-todo-item", t) )
      => /\ Cardinality(PostsFor(l)) = 1
         /\ todos[t].ext \in DOMAIN log.isrc
         /\ log.isrc[todos[t].ext] = ToStr(t)

\* C9: a list whose ListCreated push failed exists remotely and has its
\* externalId set after the next pass that completes.
C9_DriftCorrected ==
  PassCompleted =>
    \A l \in LastPass.pending \cap DOMAIN lists :
      /\ lists[l].ext # Null
      /\ lists[l].ext \in DOMAIN rlists

\* C10: once the ItemDeleted event of a todo that was deleted locally while it
\* and its list were synced is handled, the remote item no longer exists and no
\* pass creates a todo from it again.
C10_DeletePropagated ==
  \A d \in log.deleted :
    (d.ext # Null /\ d.listExt # Null /\ Handled("delete-todo-item", d.id))
    => /\ ~ItemAt(d.listExt, d.ext)
       /\ \A m \in log.made : m[2] # d.ext

\* the (description, completed) pairs of a local list and of a remote list
LocalPairs(l) == {<<todos[t].title, todos[t].completed>> : t \in TodosOf(todos, l)}
RemotePairs(r) ==
  {<<ritems[i].description, ritems[i].completed>> : i \in ItemsOf(ritems, r)}

\* C3 as stated: after local mutations whose events were all handled and one
\* complete pass, the local items of every list and the remote items of its
\* remote list are equal under (description, completed).
C3_Converged ==
  PassSettled =>
    \A l \in DOMAIN lists :
      LocalPairs(l) = IF lists[l].ext \in DOMAIN rlists
                      THEN RemotePairs(lists[l].ext) ELSE {}

\* C3 amended: after such a pass every item of a remote list whose source
\* identifier names a local list has a todo in that list with the item's id,
\* description and completed.
C3_RemoteItemsAreLocal ==
  PassSettled =>
    \A r \in WithSourceId([lists |-> rlists]) :
      LET l == ParseInt(rlists[r].source_id) IN
        l \in DOMAIN lists =>
          \A i \in ItemsOf(ritems, r) :
            \E t \in TodosOf(todos, l) :
              /\ todos[t].ext = i
              /\ todos[t].title = ritems[i].description
              /\ todos[t].completed = ritems[i].completed

\* a pass has settled over a todo whose update could not be pushed
C3_Witness ==
  /\ PassSettled
  /\ \E t \in DOMAIN todos :
       /\ ItemAt(lists[todos[t].list].ext, todos[t].ext)
       /\ [ev |-> Event("update-todo-item", t), outcome |-> "RemoteFailed"]
            \in log.acks

\* C7: a second complete pass against the snapshot of the pass before it, with
\* nothing else done in between, leaves the local store as that pass left it.
C7_PassIdempotent ==
  \A k \in 2..Len(log.passes) :
    LET a == log.passes[k - 1]
        b == log.passes[k]
    IN (/\ a.outcome = "ok" /\ b.outcome = "ok"
        /\ b.quiet /\ a.muts = b.muts /\ a.acks = b.acks
        /\ a.ext = b.ext)
       => b.local = a.local

\* C8: no two local lists share a non-null externalId, and no two todos of one
\* list do.
C8_UniqueExternalIds ==
  /\ \A l, m \in DOMAIN lists :
       (l # m /\ lists[l].ext # Null) => lists[l].ext # lists[m].ext
  /\ \A t, u \in DOMAIN todos :
       (t # u /\ todos[t].ext # Null /\ todos[t].list = todos[u].list)
       => todos[t].ext # todos[u].ext

\* C2: handling the same message twice in succession leaves the local and the
\* remote store as handling it once left them, for each of the six event kinds
\* and every starting state.
C2_ReplayIdempotent ==
  Replayed => <<local, remote>> = log.replay.once

\* the first handling changed a store and the second one has run
C2_Witness ==
  /\ Replayed
  /\ log.replay.once # log.replay.start

\* the handlers in progress
Busy == {w \in Workers : h[w].pc # "idle"}

\* C11: every delivered message is acknowledged exactly once and only when its
\* handler has finished, whatever the outcome: the acknowledgments are the
\* deliveries whose handler is no longer running.
C11_AckedOnceWhenFinished ==
  log.nd = log.na + Cardinality(Busy)

\* a handler has failed, another returned normally, and none is running
C11_Witness ==
  /\ Busy = {}
  /\ \E a, b \in log.acks : a.outcome = "ok" /\ b.outcome \notin {"ok"}
  /\ log.na >= 2

\* the passes in progress
Passing == {p \in Ticks : rec[p].pc # "idle"}

\* C13: at most one reconciliation pass is in progress at any time.
C13_SinglePass ==
  Cardinality(Passing) <= 1

\* the remote list deletes the pass of tick p has issued so far
DeletesOf(p) == {d[3] : d \in {e \in log.rdel : e[1] = p /\ e[2] = rec[p].fetch.np}}
\* the pass of tick p takes this step from the head of the second loop's body
AtList(p) == rec[p].pc = "R_list" /\ rec'[p] # rec[p]
\* a remote list of the snapshot whose source_id names no list of the local snapshot
Unmapped(p, r) == ParseInt(rec[p].ext.lists[r].source_id) \notin DOMAIN rec[p].loc
\* the remote lists with a source_id the second loop has gone past
Passed(p) == {r \in WithSourceId(rec[p].ext) : r < rec[p].cur}
C12_Loop ==
  \A p \in Ticks : rec[p].pc \in {"R_list", "R_item", "R_saveList"} =>
    /\ DeletesOf(p) \subseteq Passed(p)
    /\ \A r \in Passed(p) : r \in DeletesOf(p) <=> Unmapped(p, r)
C12_Step ==
  /\ \A p \in Ticks : AtList(p) =>
       IF Unmapped(p, rec[p].cur)
       THEN /\ log'.rdel = log.rdel \cup {<<p, rec[p].fetch.np, rec[p].cur>>}
            /\ log'.rdel # log.rdel
            /\ local' = local
       ELSE log'.rdel = log.rdel
  /\ (\A p \in Ticks : ~AtList(p)) => log'.rdel = log.rdel
\* C12: during a pass a remote delete is issued for a remote list exactly when
\* the list has a source_id that names no list of the local snapshot the pass
\* read; the delete is addressed by the remote list's own id; and the step that
\* handles such a list leaves every local record as it was.
C12_DeleteIffUnmapped ==
  []C12_Loop /\ [][C12_Step]_vars
C12_Witness ==
  /\ \E d \in log.rdel : /\ d[3] \in DOMAIN log.lsrc
                          /\ ParseInt(log.lsrc[d[3]]) # d[3]
                          /\ d[3] \notin DOMAIN rlists
  /\ PassCompleted

\* ---- what a handling did: the traces of the handler runs
RemoteOps == {"POST", "PATCH-list", "DELETE-list", "PATCH-item", "DELETE-item"}
WriteOps == {"save-list", "save-todo"}
\* the handlings that ended, and every trace, ended or in progress
Ended == {log.fin[k] : k \in DOMAIN log.fin}
Traces == {h[w].trace : w \in Workers} \cup {f.trace : f \in Ended}
\* the positions of a trace with one of the operations
At(tr, ops) == {k \in DOMAIN tr : tr[k].op \in ops}

\* handler w takes this step, and what the step adds to its trace
Stepping(w) == h[w].pc # "idle" /\ h'[w] # h[w]
After(w) ==
  IF h'[w].pc # "idle" THEN h'[w].trace ELSE log'.fin[Len(log'.fin)].trace
New(w) == SubSeq(After(w), Len(h[w].trace) + 1, Len(After(w)))

\* every read of the step returns what the local store holds
ReadsAsStored(new) ==
  \A k \in DOMAIN new :
    LET e == new[k] IN
    /\ e.op \in {"find-list", "find-list-todos"} =>
         IF e.id \in DOMAIN lists
         THEN /\ e.res = "found" /\ e.ext = lists[e.id].ext
              /\ e.name = lists[e.id].name
              /\ e.op = "find-list-todos" =>
                   /\ DOMAIN e.items = {t \in DOMAIN todos : todos[t].list = e.id}
                   /\ \A t \in DOMAIN e.items :
                        e.items[t] = [title |-> todos[t].title,
                                      completed |-> todos[t].completed,
                                      ext |-> todos[t].ext]
         ELSE e.res = "none"
    /\ e.op = "find-todo" =>
         IF e.id \in DOMAIN todos
         THEN /\ e.res = "found" /\ e.ext = todos[e.id].ext
              /\ e.title = todos[e.id].title
              /\ e.completed = todos[e.id].completed
              /\ IF todos[e.id].list \in DOMAIN lists
                 THEN e.list = todos[e.id].list /\ e.lext = lists[e.list].ext
                 ELSE e.list = Null /\ e.lext = Null
         ELSE e.res = "none"

\* the local store changes by the writes of the step and by nothing else
LocalAsWritten(new) ==
  IF At(new, {"save-list"}) # {}
  THEN LET e == new[CHOOSE k \in At(new, {"save-list"}) : TRUE] IN
       /\ DOMAIN lists' = DOMAIN lists \cup {e.id}
       /\ lists'[e.id] = [name |-> e.name, ext |-> e.ext]
       /\ \A l \in DOMAIN lists \ {e.id} : lists'[l] = lists[l]
       /\ todos' = todos
  ELSE IF At(new, {"save-todo"}) # {}
  THEN LET e == new[CHOOSE k \in At(new, {"save-todo"}) : TRUE] IN
       /\ DOMAIN todos' = DOMAIN todos \cup {e.id}
       /\ todos'[e.id].ext = e.ext
       /\ todos'[e.id].title = e.title
       /\ todos'[e.id].completed = e.completed
       /\ \A t \in DOMAIN todos \ {e.id} : todos'[t] = todos[t]
       /\ lists' = lists
  ELSE lists' = lists /\ todos' = todos

\* the remote system changes by the answered calls of the step and by nothing else
RemoteAsCalled(new) ==
  IF At(new, RemoteOps) = {}
  THEN rlists' = rlists /\ ritems' = ritems
  ELSE LET c == new[CHOOSE k \in At(new, RemoteOps) : TRUE] IN
    CASE c.op = "POST" /\ c.res \in {"ok", "lost"} ->
           LET made == DOMAIN rlists' \ DOMAIN rlists
               items == DOMAIN ritems' \ DOMAIN ritems
           IN /\ Cardinality(made) = 1
              /\ \A r \in made :
                   /\ rlists'[r] = [source_id |-> c.src, name |-> c.name]
                   /\ c.res = "ok" => c.ext = r
                   /\ \A t \in DOMAIN c.items : \E i \in items :
                        /\ ritems'[i] = [list |-> r, source_id |-> ToStr(t),
                                         description |-> c.items[t].title,
                                         completed |-> c.items[t].completed]
                        /\ c.res = "ok" => c.echo[i] = ToStr(t)
              /\ Cardinality(items) = Cardinality(DOMAIN c.items)
              /\ c.res = "ok" => DOMAIN c.echo = items
              /\ \A r \in DOMAIN rlists : r \in DOMAIN rlists' /\ rlists'[r] = rlists[r]
              /\ \A i \in DOMAIN ritems : i \in DOMAIN ritems' /\ ritems'[i] = ritems[i]
      [] c.op = "PATCH-list" /\ c.res = "ok" ->
           /\ c.ext \in DOMAIN rlists
           /\ rlists' = [rlists EXCEPT ![c.ext].name = c.name]
           /\ ritems' = ritems
      [] c.op = "DELETE-list" /\ c.res = "ok" ->
           /\ c.ext \in DOMAIN rlists
           /\ rlists' = [r \in DOMAIN rlists \ {c.ext} |-> rlists[r]]
           /\ ritems' = [i \in {j \in DOMAIN ritems : ritems[j].list # c.ext} |->
                           ritems[i]]
      [] c.op = "PATCH-item" /\ c.res = "ok" ->
           /\ c.ext \in DOMAIN ritems /\ ritems[c.ext].list = c.lext
           /\ ritems' = [ritems EXCEPT ![c.ext].description = c.title,
                                       ![c.ext].completed = c.completed]
           /\ rlists' = rlists
      [] c.op = "DELETE-item" /\ c.res = "ok" ->
           /\ c.ext \in DOMAIN ritems /\ ritems[c.ext].list = c.lext
           /\ ritems' = [i \in DOMAIN ritems \ {c.ext} |-> ritems[i]]
           /\ rlists' = rlists
      [] OTHER -> rlists' = rlists /\ ritems' = ritems

\* the traces tell what the handlers did: every step of a handler reads what is
\* stored, and changes the two stores exactly as the entries it adds say
Faithful ==
  \A w \in Workers : Stepping(w) =>
    /\ ReadsAsStored(New(w))
    /\ LocalAsWritten(New(w))
    /\ RemoteAsCalled(New(w))

\* the reads of createTodoList that found the list unsynced
UnsyncedReads(tr) ==
  {k \in At(tr, {"find-list-todos"}) : tr[k].res = "found" /\ tr[k].ext = Null}
\* the items of a creation response that name an item of the request
EchoedIn(c) ==
  {i \in DOMAIN c.echo : \E t \in DOMAIN c.items : c.echo[i] = ToStr(t)}
\* after the read at k: one POST with the list and the items as read; after a
\* successful POST the list is saved with the returned id and echoed items
\* are saved with their remote ids, each at most once, and nothing else is written
CreatedAsRead(tr, k) ==
  k < Len(tr) =>
    LET rd == tr[k]
        c == tr[k + 1]
    IN /\ c.op = "POST"
       /\ c.src = ToStr(rd.id) /\ c.name = rd.name /\ c.items = rd.items
       /\ At(tr, {"POST"}) = {k + 1}
       /\ IF c.res = "ok"
          THEN /\ k + 1 < Len(tr) =>
                    /\ tr[k + 2].op = "save-list"
                    /\ tr[k + 2].id = rd.id /\ tr[k + 2].ext = c.ext
               /\ At(tr, {"save-list"}) \subseteq {k + 2}
               /\ \A j \in At(tr, {"save-todo"}) :
                    /\ j > k + 2
                    /\ tr[j].ext \in EchoedIn(c)
                    /\ c.echo[tr[j].ext] = ToStr(tr[j].id)
                    /\ \A j2 \in At(tr, {"save-todo"}) :
                         tr[j2].ext = tr[j].ext => j2 = j
          ELSE At(tr, WriteOps) = {} /\ Len(tr) = k + 1
\* the handling ended: the POST was made, and after a successful one the list
\* and every echoed item were saved
CreatedInFull(tr, k) ==
  /\ k < Len(tr)
  /\ tr[k + 1].res = "ok" =>
       /\ At(tr, {"save-list"}) = {k + 2}
       /\ {tr[j].ext : j \in At(tr, {"save-todo"})} = EchoedIn(tr[k + 1])
C14_Trace ==
  /\ \A tr \in Traces : \A k \in UnsyncedReads(tr) : CreatedAsRead(tr, k)
  /\ \A f \in Ended : \A k \in UnsyncedReads(f.trace) : CreatedInFull(f.trace, k)
  /\ \A tr \in Traces : \A j \in At(tr, {"POST"}) : j - 1 \in UnsyncedReads(tr)
\* C14: a handling that reads a list with null external_id in createTodoList
\* sends one creation request, with the list's id as source_id, its name, and
\* each item the list has at the read with the item's id as source_id; after a
\* successful answer it saves the list with the returned id and every echoed
\* item of the request with its paired remote id; no other record changes.
C14_CreateAsRead ==
  []C14_Trace /\ [][Faithful]_vars
C14_Witness ==
  \E f \in Ended :
    /\ f.ev.type = "create-todo-list" /\ f.out = "ok"
    /\ \E k \in At(f.trace, {"POST"}) :
         /\ Cardinality(DOMAIN f.trace[k].items) = 2
         /\ Cardinality(At(f.trace, {"save-todo"})) = 2
    /\ lists[f.ev.id].ext # Null
    /\ \A t \in DOMAIN todos : todos[t].ext # Null

\* the ended handlings of the messages of one type
EndedOf(type) == {f \in Ended : f.ev.type = type}
\* a call entry without its answer
Request(c) == [c EXCEPT !.res = ""]
\* the list was synced at the read of updateTodoList: one PATCH to its external
\* id with its name and nothing else, and no local write
PatchedAsRead(tr) ==
  /\ Len(tr) = 2
  /\ Request(tr[2]) = [Io EXCEPT !.op = "PATCH-list", !.ext = tr[1].ext,
                                 !.name = tr[1].name]

\* C16 as stated: a handling of update-todo-list that finds the list sends one
\* creation request when external_id is null at its read, and otherwise exactly
\* one update to that external id with only the name.
C16_UpdateOrCreate ==
  \A f \in EndedOf("update-todo-list") :
    LET tr == f.trace IN
    tr[1].res = "found" =>
      IF tr[1].ext = Null
      THEN /\ Cardinality(At(tr, {"POST"})) = 1
           /\ At(tr, {"PATCH-list"}) = {}
      ELSE PatchedAsRead(tr)
\* the list was unsynced at the read of updateTodoList: createTodoList runs, with
\* its own read of the same list and one POST if that read finds it unsynced
CreatedInstead(f) ==
  LET tr == f.trace IN
  /\ Len(tr) >= 2
  /\ tr[2].op = "find-list-todos" /\ tr[2].id = tr[1].id
  /\ At(tr, {"PATCH-list"}) = {}
  /\ IF 2 \in UnsyncedReads(tr)
     THEN At(tr, {"POST"}) = {3}
     ELSE /\ Len(tr) = 2
          /\ f.out = IF tr[2].res = "found" THEN "ok" ELSE "NotFound"
C16_Trace ==
  \A f \in EndedOf("update-todo-list") :
    f.trace[1].res = "found" =>
      IF f.trace[1].ext = Null THEN CreatedInstead(f) ELSE PatchedAsRead(f.trace)
\* C16: a handling of update-todo-list that finds the list: when external_id is
\* null at its read it runs createTodoList, which reads the list again and sends
\* one creation request if the list is still unsynced and none if it is gone or
\* synced by then, and it sends no update; otherwise it sends exactly one update
\* to that external id with only the name it read, and writes nothing locally.
C16_UpdateOrCreateIfUnsynced ==
  []C16_Trace /\ [][Faithful]_vars
C16_Witness ==
  /\ \E f \in EndedOf("update-todo-list") :
       /\ f.trace[1].res = "found" /\ f.trace[1].ext = Null
       /\ Len(f.trace) = 2 /\ f.trace[2].ext # Null /\ f.out = "ok"
  /\ \E f \in Ended : \E k \in At(f.trace, {"POST"}) : f.trace[k].res = "ok"

\* the ended handlings of update-todo-item that found the todo synced
UpdatesOfSynced ==
  {f \in EndedOf("update-todo-item") :
     /\ f.trace[1].res = "found" /\ f.trace[1].list # Null
     /\ f.trace[1].ext # Null}
\* entry k is an item update addressed by the external ids of the read ad and
\* carrying the title and completed of the read rd
PatchedItem(tr, k, rd, ad) ==
  /\ k \in DOMAIN tr
  /\ Request(tr[k]) = [Io EXCEPT !.op = "PATCH-item", !.lext = ad.lext,
                                 !.ext = ad.ext, !.title = rd.title,
                                 !.completed = rd.completed]
\* the re-read of the todo after createTodoList: InternalError and no update
\* when the todo is gone or unsynced, otherwise one update addressed by the
\* re-read external ids; no update without a re-read
Reread(f) ==
  LET tr == f.trace
      rs == {k \in At(tr, {"find-todo"}) : k > 1}
  IN /\ \A k \in rs :
          IF tr[k].res = "none" \/ tr[k].ext = Null
          THEN f.out = "InternalError" /\ Len(tr) = k
          ELSE tr[k].list # Null =>
                 Len(tr) = k + 1 /\ PatchedItem(tr, k + 1, tr[1], tr[k])
     /\ At(tr, {"PATCH-item"}) \subseteq {k + 1 : k \in rs}
     /\ Cardinality(rs) <= 1
     /\ rs = {} => f.out # "ok"

\* C17 as stated: a handling of update-todo-item whose item is synced and whose
\* list is unsynced first creates the list remotely, reads the item again and
\* then sends the update.
C17_UpdateItem ==
  \A f \in UpdatesOfSynced :
    LET tr == f.trace IN
    IF tr[1].lext # Null
    THEN Len(tr) = 2 /\ PatchedItem(tr, 2, tr[1], tr[1])
    ELSE Cardinality(At(tr, {"POST"})) = 1 /\ Reread(f)
\* the list was unsynced at the read of updateTodoItem: createTodoList runs, with
\* its own read of the list and one POST if that read finds it unsynced
ListCreatedFirst(f) ==
  LET tr == f.trace IN
  /\ Len(tr) >= 2
  /\ tr[2].op = "find-list-todos" /\ tr[2].id = tr[1].list
  /\ At(tr, {"POST"}) = IF 2 \in UnsyncedReads(tr) THEN {3} ELSE {}
  /\ tr[2].res = "none" => f.out = "NotFound" /\ Len(tr) = 2
C17_Trace ==
  \A f \in UpdatesOfSynced :
    LET tr == f.trace IN
    IF tr[1].lext # Null
    THEN Len(tr) = 2 /\ PatchedItem(tr, 2, tr[1], tr[1])
    ELSE ListCreatedFirst(f) /\ Reread(f)
\* C17: a handling of update-todo-item that finds the todo with an external id:
\* when its list is synced it sends exactly one item update, addressed by the two
\* external ids and carrying the title and completed it read; when the list is
\* not synced it runs createTodoList first (one creation request if the list is
\* still unsynced at that read, none if it is synced by then), reads the todo
\* again and sends the update addressed by the external ids of that second read,
\* or fails with InternalError and no update when the todo is gone or unsynced.
C17_UpdateItemAfterListSync ==
  []C17_Trace /\ [][Faithful]_vars
C17_Witness ==
  /\ \E f \in UpdatesOfSynced :
       /\ f.trace[1].lext = Null /\ At(f.trace, {"POST"}) = {}
       /\ \E k \in At(f.trace, {"PATCH-item"}) : f.trace[k].res = "ok"
  /\ \E f \in UpdatesOfSynced :
       /\ f.trace[1].lext = Null /\ At(f.trace, {"POST"}) # {}
       /\ \E k \in At(f.trace, {"PATCH-item"}) :
            f.trace[k].res = "ok" /\ f.trace[k].lext # Null

C18_Trace ==
  \A f \in EndedOf("delete-todo-list") :
    LET tr == f.trace IN
    IF tr[1].res = "none" \/ tr[1].ext = Null
    THEN Len(tr) = 1 /\ f.out = "ok"
    ELSE /\ Len(tr) = 2
         /\ Request(tr[2]) = [Io EXCEPT !.op = "DELETE-list", !.ext = tr[1].ext]
         /\ f.out = IF tr[2].res \in {"ok", "404"} THEN "ok" ELSE "RemoteFailed"
\* C18: a handling of delete-todo-list makes no remote call and succeeds when
\* the list is gone or has a null external_id at its read; otherwise it sends
\* exactly one remote delete to that external id, succeeds when the answer is
\* success or not-found and fails on any other failure; it never writes to the
\* local store.
C18_DeleteList ==
  []C18_Trace /\ [][Faithful]_vars
C18_Witness ==
  \E f \in EndedOf("delete-todo-list") :
    /\ Len(f.trace) = 2 /\ f.trace[2].res = "404" /\ f.out = "ok"
    /\ f.ev.id \in DOMAIN lists

\* the read found the todo with an external id and its list with one
BothSynced(rd) ==
  rd.res = "found" /\ rd.ext # Null /\ rd.list # Null /\ rd.lext # Null
C19_Trace ==
  /\ \A f \in EndedOf("delete-todo-item") :
       LET tr == f.trace IN
       IF BothSynced(tr[1])
       THEN /\ Len(tr) = 2
            /\ Request(tr[2]) = [Io EXCEPT !.op = "DELETE-item",
                                           !.lext = tr[1].lext, !.ext = tr[1].ext]
       ELSE Len(tr) = 1 /\ f.out = "ok"
  /\ \A tr \in Traces : \A k \in At(tr, {"DELETE-item"}) :
       k = 2 /\ tr[1].op = "find-todo" /\ BothSynced(tr[1])
\* C19: a handling of delete-todo-item makes no remote call and succeeds when at
\* its read the todo is gone, or has a null external_id, or its list is missing
\* or has a null external_id, whatever the todo's own external_id; a remote item
\* delete is sent only when the todo exists and both it and its list have
\* external ids, and is addressed by those two ids.
C19_DeleteItem ==
  []C19_Trace /\ [][Faithful]_vars
C19_Witness ==
  /\ \E f \in EndedOf("delete-todo-item") :
       /\ f.trace[1].res = "found" /\ f.trace[1].ext # Null
       /\ f.trace[1].list = Null
       /\ Len(f.trace) = 1 /\ f.out = "ok"
  /\ ritems # Empty

\* the remote items created with todo t as source_id
ItemsFor(lg, t) == {i \in DOMAIN lg.isrc : lg.isrc[i] = ToStr(t)}

C15_StaysNull ==
  \A e \in log.warned : e.alone /\ e.id \in DOMAIN todos => todos[e.id].ext = Null
\* the step that warns calls nothing and writes nothing; no later step creates a
\* remote item for a warned todo, unless a createTodoList call had read it; and
\* remote items are created by the POST of createTodoList only
C15_Step ==
  /\ log'.warned # log.warned => local' = local /\ remote' = remote
  /\ \A e \in log.warned : e.alone => ItemsFor(log', e.id) = ItemsFor(log, e.id)
  /\ ~(DOMAIN ritems' \subseteq DOMAIN ritems) =>
       \E w \in Workers : h[w].pc = "CL_post" /\ h'[w] # h[w]
C20_RemoteWins ==
  PassSettled =>
    \A r \in WithSourceId([lists |-> rlists]) :
      LET l == ParseInt(rlists[r].source_id) IN
        l \in DOMAIN lists =>
          /\ lists[l].name = rlists[r].name
          /\ lists[l].ext = r
          /\ \A i \in ItemsOf(ritems, r) :
               \E t \in TodosOf(todos, l) :
                 /\ todos[t].ext = i
                 /\ todos[t].title = ritems[i].description
                 /\ todos[t].completed = ritems[i].completed

\* the pass of tick p is reconciling the items of a local list it loaded
AtItems(p) == rec[p].pc \in {"R_item", "R_saveList"}

\* the loaded todos of that list the pass flags: their external id, as loaded,
\* is not the id of any item of the remote list
Flagged(p) ==
  LET ts == rec[p].loc[rec[p].lid].todos IN
    {t \in DOMAIN ts :
       /\ ts[t].ext # Null
       /\ ts[t].ext \notin ItemsOf(rec[p].ext.items, rec[p].cur)}

\* what one step of a pass leaves alone
C21_Step ==
  \A p \in Ticks :
    rec'[p] # rec[p] =>
      /\ DOMAIN lists \subseteq DOMAIN lists'
      /\ DOMAIN todos \subseteq DOMAIN todos'
      /\ \A t \in DOMAIN todos :
           (AtItems(p) => t \in Flagged(p)) => todos'[t] = todos[t]
\* C21: no step of a reconciliation pass removes a local list or todo, so every
\* record that exists when a pass starts and that nobody else removes exists
\* when it ends; a todo the pass finds with an externalId that matches no item
\* of the remote list keeps all its fields and its externalId, and outside the
\* reconciliation of a list's items no existing todo is written at all.
C21_PassKeepsRecords == [][C21_Step]_vars

\* a pass that ran alone has reconciled a remote list none of whose items has
\* the externalId of a todo the local list already had
C21_Witness ==
  /\ PassCompleted
  /\ LastPass.quiet
  /\ \E r \in WithSourceId(LastPass.ext) :
       LET l == ParseInt(LastPass.ext.lists[r].source_id) IN
         /\ l \in DOMAIN lists
         /\ \E t \in TodosOf(todos, l) :
              /\ todos[t].ext # Null
              /\ todos[t].ext \notin ItemsOf(LastPass.ext.items, r)
              /\ \A m \in log.made : m[1] # t

\* a pass ends in this step without ever having been in progress: its GET failed
FetchFails == Len(log'.passes) = Len(log.passes) + 1 /\ rec' = rec

\* the latest pass to end failed at its GET
FetchFailed ==
  /\ log.passes # <<>>
  /\ LastPass.outcome = "failed"
  /\ LastPass.ext = NoSnapshot

\* the timer can start a pass
CanTick == ENABLED (\E p \in Ticks : R_fetch(p))

\* the step in which the fetch of a pass fails
C22_Step ==
  FetchFails =>
    /\ log'.passes[Len(log'.passes)].outcome = "failed"
    /\ UNCHANGED <<local, remote, queue, h>>
C22_TickAfterFailure ==
  (FetchFailed /\ budget.passes > 0 /\ Passing # Ticks) => CanTick
\* C22: a pass whose initial fetch fails ends as failed in that step, with the
\* local store and the remote system as they were and no pass left in progress;
\* and some timer tick can start a new pass afterwards, as long as the run has
\* passes left and not every tick is in a pass.
C22_FetchFailureIsFatal == []C22_TickAfterFailure /\ [][C22_Step]_vars

\* a pass failed at its GET and a pass started after it has fetched
C22_Witness ==
  /\ FetchFailed
  /\ \E p \in Ticks :
       /\ rec[p].pc = "R_findLocal"
       /\ rec[p].fetch.np = Len(log.passes)

\* the pass of tick p asks for the delete of the remote list it is at and the
\* remote system is left as it was: the call failed or the list was not found
DeleteFails(p) == AtList(p) /\ Unmapped(p, rec[p].cur) /\ remote' = remote

\* the remote lists with a source_id the second loop has still to go through
Remaining(p) == {r \in WithSourceId(rec[p].ext) : r > rec[p].cur}

\* the step after a failed delete, and where a pass can be aborted
C23_Step ==
  \A p \in Ticks :
    /\ DeleteFails(p) =>
         /\ local' = local
         /\ IF Remaining(p) = {}
            THEN rec'[p].pc = "R_end"
            ELSE /\ rec'[p].pc = "R_list"
                 /\ rec'[p].cur = Min(Remaining(p))
                 /\ rec'[p].ext = rec[p].ext
                 /\ rec'[p].loc = rec[p].loc
    /\ (rec'[p].pc = "R_throw" /\ rec[p].pc # "R_throw")
         => rec[p].pc \in {"R_newTodos", "R_item"}
C23_AloneEndsWell ==
  (log.passes # <<>> /\ LastPass.quiet) => LastPass.outcome = "ok"
\* C23: a remote list delete that fails during a pass, for whatever reason,
\* does not abort the pass: the pass goes on to the next remote list of its
\* snapshot, or ends normally when none remains, and the local store is as it
\* was; a pass is only ever aborted at a local save, and a pass that ran alone
\* completes without error.
C23_DeleteFailureTolerated == []C23_AloneEndsWell /\ [][C23_Step]_vars

\* a pass that ran alone has completed; a delete it asked for left the remote
\* list in place, and its snapshot held a further remote list after that one
C23_Witness ==
  /\ PassCompleted
  /\ LastPass.quiet
  /\ \E d \in log.rdel :
       /\ d[2] = Len(log.passes) - 1
       /\ d[3] \in DOMAIN rlists
       /\ \E r \in WithSourceId(LastPass.ext) : r > d[3]

\* the events whose handler expects its entity to exist
Expecting == {"create-todo-list", "update-todo-list",
              "create-todo-item", "update-todo-item"}

\* the read found no row, or found a todo without its list
Missing(rd) == rd.res = "none" \/ (rd.op = "find-todo" /\ rd.list = Null)

\* the first read of a handling is of the entity its event names
ReadsItsEntity(f) ==
  /\ f.trace # <<>>
  /\ f.trace[1].id = f.ev.id
  /\ f.trace[1].op = IF f.ev.type = "create-todo-list" THEN "find-list-todos"
                     ELSE IF f.ev.type = "update-todo-list" THEN "find-list"
                     ELSE "find-todo"

C24_Trace ==
  \A f \in Ended : f.ev.type \in Expecting =>
    /\ ReadsItsEntity(f)
    /\ Missing(f.trace[1]) => f.out = "NotFound" /\ Len(f.trace) = 1
    /\ f.out = "NotFound" =>
         /\ Missing(f.trace[Len(f.trace)])
         /\ At(f.trace, RemoteOps \cup WriteOps) = {}

\* the step in which a handling ends with NotFound acknowledges the message and
\* changes nothing else
C24_Step ==
  \A w \in Workers :
    (Stepping(w) /\ h'[w].pc = "idle" /\ log'.fin[Len(log'.fin)].out = "NotFound")
    => /\ [ev |-> h[w].ev, outcome |-> "NotFound"] \in log'.acks
       /\ UNCHANGED <<local, remote, queue>>

\* every message is delivered at most once: the deliveries and the queued
\* messages are the one message of the run and one per mutation since
C24_NoRetry ==
  log.nd + Len(queue) = 1 + (HandleMutations - budget.muts)

\* C24: a handling of a list-created, list-updated, item-created or
\* item-updated event whose entity is absent at its read, or whose todo has no
\* list, ends with NotFound after that one read, with no remote call and no
\* local write; NotFound is only ever raised at such a read, before any call or
\* write of the handling; the message is acknowledged and never delivered again.
C24_NotFound ==
  [](C24_Trace /\ C24_NoRetry) /\ [][C24_Step /\ Faithful]_vars

\* an item event was handled whose todo exists while its list does not
C24_Witness ==
  /\ Quiet
  /\ \E f \in Ended :
       /\ f.ev.type \in {"create-todo-item", "update-todo-item"}
       /\ f.trace[1].res = "found"
       /\ f.trace[1].list = Null
       /\ f.out = "NotFound"

\* C25: when one handling of an item-updated event and one reconciliation pass
\* have both completed on a synced todo of a synced list, in whatever order
\* their steps interleaved, the todo's (title, completed) equal the remote
\* item's (description, completed).
C25_HandlerAndPassConverge ==
  \A t \in DOMAIN todos :
    ( /\ Quiet
      /\ PassCompleted
      /\ Len(log.passes) = 1
      /\ log.nd = 1
      /\ Handled("update-todo-item", t)
      /\ todos[t].list \in DOMAIN lists
      /\ ItemAt(lists[todos[t].list].ext, todos[t].ext) )
    => /\ todos[t].title = ritems[todos[t].ext].description
       /\ todos[t].completed = ritems[todos[t].ext].completed

====
